---- MODULE Spec2Model ----
(***************************************************************************)
(* Model of token_filtering/src/main.rs: the screening record              *)
(* (TokenScreenData), the three document readers (parse_rugcheck,          *)
(* merge_gmgn_holder_stat, merge_gmgn_token_holders), the success gate     *)
(* (gmgn_ok), the decision function (evaluate) and the pipeline of main.   *)
(*                                                                         *)
(* Conventions                                                             *)
(*   Option<T>      None is <<>>, Some(x) is <<x>>.                        *)
(*   f64            an exact rational [num, den] in lowest terms, den > 0. *)
(*   String         a tuple of one-character strings, so that contains     *)
(*                  and to_lowercase are computed character by character.  *)
(*   serde_json     a tagged record [t, v]; an object is a function from   *)
(*                  its keys to values.                                    *)
(*   reason string  a record [prefix, rule, nums, text]: the prefix before *)
(*                  the colon, the rule's fixed words, the numbers and the *)
(*                  text the format string interpolates.                   *)
(* Fields of TokenScreenData that neither evaluate nor a merge reads or    *)
(* writes (mint, score, creator, creator_balance, lp_locked_pct,           *)
(* graph_insiders_detected, price, market_cap, mc_per_holder) are left out.*)
(***************************************************************************)
EXTENDS Integers, Sequences, FiniteSets, TLC

VARIABLES
  pc,       \* the step main is at
  data,     \* the TokenScreenData being built
  result,   \* evaluate's ScreenResult, "none" before it ran
  reasons,  \* evaluate's reason list
  edits,    \* fields of the base record changed so far (SpecEval)
  stat,     \* what became of the holder-statistics document, and the code and
            \* message of the one that was merged
  holders,  \* the same for the top-holders document
  last      \* the merge applied last and its document (SpecMerge)

vars == <<pc, data, result, reasons, edits, stat, holders, last>>

(***************************************************************************)
(* Bounds of the model.                                                    *)
(***************************************************************************)
\* fields of a base record that SpecEval may change before evaluating
MaxEdits == 2
\* length of the top-holder list SpecTooClean builds (the rule reads 10)
MaxHolders == 11
\* holders of that list that carry a tag other than "top_holder"
MaxTagged == 1
\* entries of data.list in a top-holders document
MaxDocHolders == 2

(***************************************************************************)
(* Option<T>                                                               *)
(***************************************************************************)
None == <<>>

Some(x) == <<x>>

IsSome(o) == o # <<>>

Unwrap(o) == o[1]

\* Option::or
OrOpt(a, b) == IF IsSome(a) THEN a ELSE b

\* Option::unwrap_or
UnwrapOr(o, dflt) == IF IsSome(o) THEN o[1] ELSE dflt

(***************************************************************************)
(* f64 as exact rationals                                                  *)
(***************************************************************************)
Abs(n) == IF n < 0 THEN -n ELSE n

RECURSIVE Gcd(_, _)
Gcd(a, b) == IF b = 0 THEN a ELSE Gcd(b, a % b)

Rat(n, d) ==
  LET g == Gcd(Abs(n), Abs(d))
      s == IF d < 0 THEN -1 ELSE 1
  IN  [num |-> (s * n) \div g, den |-> (s * d) \div g]

FromInt(n) == [num |-> n, den |-> 1]

RAdd(a, b) == Rat(a.num * b.den + b.num * a.den, a.den * b.den)

RMul(a, b) == Rat(a.num * b.num, a.den * b.den)

\* only used with b # 0
RDiv(a, b) == Rat(a.num * b.den, a.den * b.num)

RLt(a, b) == a.num * b.den < b.num * a.den

RGt(a, b) == RLt(b, a)

RLe(a, b) == ~RLt(b, a)

\* the numbers of a float, as a reason's nums
RNums(r) == <<r.num, r.den>>

(***************************************************************************)
(* String                                                                  *)
(***************************************************************************)
UpperChars == <<"A","B","C","D","E","F","G","H","I","J","K","L","M","N","O","P","Q","R","S","T","U","V","W","X","Y","Z">>

LowerChars == <<"a","b","c","d","e","f","g","h","i","j","k","l","m","n","o","p","q","r","s","t","u","v","w","x","y","z">>

LowerChar(c) ==
  IF \E i \in DOMAIN UpperChars : UpperChars[i] = c
  THEN LowerChars[CHOOSE i \in DOMAIN UpperChars : UpperChars[i] = c]
  ELSE c

\* str::to_lowercase
to_lowercase(s) == [i \in DOMAIN s |-> LowerChar(s[i])]

StartsWith(s, p) == Len(p) <= Len(s) /\ SubSeq(s, 1, Len(p)) = p

\* str::contains(&str): scan the start positions left to right
RECURSIVE contains(_, _)
contains(s, p) ==
  IF Len(s) < Len(p) THEN FALSE
  ELSE StartsWith(s, p) \/ contains(Tail(s), p)

\* Iterator::take
Take(s, n) == SubSeq(s, 1, IF Len(s) < n THEN Len(s) ELSE n)

(***************************************************************************)
(* Policy tables of evaluate                                               *)
(***************************************************************************)
CRITICAL_RISK_NAMES ==
  << <<"T","o","p"," ","h","o","l","d","e","r"," ","c","o","n","c","e","n","t","r","a","t","i","o","n">>,
     <<"C","r","e","a","t","o","r"," ","h","a","s"," ","r","u","g","g","e","d">>,
     <<"C","r","e","a","t","o","r"," ","s","o","l","d">>,
     <<"H","o","n","e","y","p","o","t">> >>

DESIRABLE_HOLDER_TAGS ==
  << <<"b","u","n","d","l","e","r">>,
     <<"b","l","u","e","c","h","i","p">>,
     <<"w","h","a","l","e">>,
     <<"a","x","i","o","m">> >>

WARNING_THRESHOLD == 2

(***************************************************************************)
(* TokenScreenData                                                         *)
(***************************************************************************)
\* Default::default() of the fields the model keeps
DefaultData ==
  [ score_normalised     |-> None,
    top_holder_pct       |-> None,
    total_holders        |-> 0,
    risks                |-> <<>>,
    total_lp_providers   |-> 0,
    rugged               |-> None,
    fresh_wallet_count   |-> None,
    insider_count        |-> None,
    bluechip_owner_count |-> None,
    bundler_count        |-> None,
    dex_bot_count        |-> None,
    sniper_count         |-> None,
    dev_count            |-> None,
    insiders_pct         |-> None,
    bluechip_pct         |-> None,
    bundler_pct          |-> None,
    fresh_ratio          |-> None,
    bundled_ratio        |-> None,
    bundler_supply_pct   |-> None,
    bundler_holder_ratio |-> None,
    top_holders          |-> <<>> ]

\* a Risk; level, description, score and value are parsed and never read
MkRisk(name) == [name |-> name]

MkHolder(pct, maker_token_tags, tags) ==
  [pct |-> pct, maker_token_tags |-> maker_token_tags, tags |-> tags]

(***************************************************************************)
(* evaluate                                                                *)
(***************************************************************************)
Reason(prefix, rule, nums, text) ==
  [prefix |-> prefix, rule |-> rule, nums |-> nums, text |-> text]

\* CRITICAL_RISK_NAMES.iter().any(|c| name.contains(c))
IsCriticalName(name) ==
  \E i \in DOMAIN CRITICAL_RISK_NAMES : contains(name, CRITICAL_RISK_NAMES[i])

HardScore(d) ==
  IF IsSome(d.score_normalised) /\ Unwrap(d.score_normalised) > 20
  THEN << Reason("HARD", "score_normalised > 20", <<Unwrap(d.score_normalised)>>, <<>>) >>
  ELSE <<>>

HardTopHolderPct(d) ==
  IF IsSome(d.top_holder_pct) /\ RGt(Unwrap(d.top_holder_pct), FromInt(10))
  THEN << Reason("HARD", "top_holder_pct > 10%", RNums(Unwrap(d.top_holder_pct)), <<>>) >>
  ELSE <<>>

HardTotalHolders(d) ==
  (IF d.total_holders < 500
   THEN << Reason("HARD", "total_holders < 500", <<d.total_holders>>, <<>>) >>
   ELSE <<>>)
  \o
  (IF d.total_holders > 3000
   THEN << Reason("HARD", "total_holders > 3000", <<d.total_holders>>, <<>>) >>
   ELSE <<>>)

HardInsiders(d) ==
  IF IsSome(d.insiders_pct) /\ RGt(Unwrap(d.insiders_pct), FromInt(5))
  THEN << Reason("HARD", "insiders_pct > 5%", RNums(Unwrap(d.insiders_pct)), <<>>) >>
  ELSE <<>>

\* a plausible slip: the count-derived value preferred
HardBundlerCountsFirst(d) ==
  LET bundler_pct == OrOpt(d.bundler_pct, d.bundler_supply_pct)
  IN  IF IsSome(bundler_pct) /\ RGt(Unwrap(bundler_pct), FromInt(30))
      THEN << Reason("HARD", "bundler_pct > 30%", RNums(Unwrap(bundler_pct)), <<>>) >>
      ELSE <<>>

HardBundler(d) ==
  LET bundler_pct == OrOpt(d.bundler_supply_pct, d.bundler_pct)
  IN  IF IsSome(bundler_pct) /\ RGt(Unwrap(bundler_pct), FromInt(30))
      THEN << Reason("HARD", "bundler_pct > 30%", RNums(Unwrap(bundler_pct)), <<>>) >>
      ELSE <<>>

HardBluechip(d) ==
  IF IsSome(d.bluechip_pct) /\ RLt(Unwrap(d.bluechip_pct), Rat(1, 2))
  THEN << Reason("HARD", "bluechip_pct < 0.5%", RNums(Unwrap(d.bluechip_pct)), <<>>) >>
  ELSE <<>>

HardFreshRatio(d) ==
  IF IsSome(d.fresh_ratio) /\ RGt(Unwrap(d.fresh_ratio), Rat(2, 5))
  THEN << Reason("HARD", "fresh_ratio > 0.4", RNums(Unwrap(d.fresh_ratio)), <<>>) >>
  ELSE <<>>

HardBundledRatio(d) ==
  LET bundled_ratio == OrOpt(d.bundler_holder_ratio, d.bundled_ratio)
  IN  IF IsSome(bundled_ratio) /\ RGt(Unwrap(bundled_ratio), Rat(2, 5))
      THEN << Reason("HARD", "bundled_ratio > 0.4", RNums(Unwrap(bundled_ratio)), <<>>) >>
      ELSE <<>>

\* a plausible slip: the loop stops at the first critical risk
HardRisksFirstOnly(risks) ==
  LET hits == SelectSeq(risks, LAMBDA r : IsSome(r.name) /\ IsCriticalName(Unwrap(r.name)))
  IN  IF hits = <<>> THEN <<>>
      ELSE << Reason("HARD", "critical risk", <<>>, Unwrap(hits[1].name)) >>

RECURSIVE HardRisks(_)
HardRisks(risks) ==
  IF risks = <<>> THEN <<>>
  ELSE (IF IsSome(Head(risks).name) /\ IsCriticalName(Unwrap(Head(risks).name))
        THEN << Reason("HARD", "critical risk", <<>>, Unwrap(Head(risks).name)) >>
        ELSE <<>>)
       \o HardRisks(Tail(risks))

HardRugged(d) ==
  IF d.rugged = Some(TRUE)
  THEN << Reason("HARD", "token marked as rugged", <<>>, <<>>) >>
  ELSE <<>>

\* h.maker_token_tags.iter().chain(h.tags.iter()).any(|t| DESIRABLE...any(|d| t.contains(d)))
HolderHasDesirable(h) ==
  LET chained == h.maker_token_tags \o h.tags
  IN  \E i \in DOMAIN chained :
        \E j \in DOMAIN DESIRABLE_HOLDER_TAGS :
          contains(chained[i], DESIRABLE_HOLDER_TAGS[j])

\* a plausible slip: the whole list is scanned instead of its first 10
HardTooCleanWholeList(d) ==
  LET has_desirable == \E i \in DOMAIN d.top_holders : HolderHasDesirable(d.top_holders[i])
  IN  IF d.top_holders # <<>> /\ ~has_desirable
      THEN << Reason("HARD", "top holders 'too clean'", <<>>, <<>>) >>
      ELSE <<>>

HardTooClean(d) ==
  LET top10 == Take(d.top_holders, 10)
      has_desirable == \E i \in DOMAIN top10 : HolderHasDesirable(top10[i])
  IN  IF d.top_holders # <<>> /\ ~has_desirable
      THEN << Reason("HARD", "top holders 'too clean'", <<>>, <<>>) >>
      ELSE <<>>

\* the reasons pushed by the hard-fail block, in the order of the code
HardReasons(d) ==
  HardScore(d) \o HardTopHolderPct(d) \o HardTotalHolders(d) \o HardInsiders(d)
  \o HardBundler(d) \o HardBluechip(d) \o HardFreshRatio(d) \o HardBundledRatio(d)
  \o HardRisks(d.risks) \o HardRugged(d) \o HardTooClean(d)

WarnScore(d) ==
  IF IsSome(d.score_normalised) /\ Unwrap(d.score_normalised) \in 10..20
  THEN << Reason("WARN", "score_normalised in 10-20", <<Unwrap(d.score_normalised)>>, <<>>) >>
  ELSE <<>>

WarnLpProviders(d) ==
  IF d.total_lp_providers < 5
  THEN << Reason("WARN", "total_lp_providers < 5", <<d.total_lp_providers>>, <<>>) >>
  ELSE <<>>

\* a plausible slip: the risks warned about once, however many there are
WarnRisksOnce(risks) ==
  LET named == SelectSeq(risks, LAMBDA r : IsSome(r.name) /\ ~IsCriticalName(Unwrap(r.name)))
  IN  IF named = <<>> THEN <<>>
      ELSE << Reason("WARN", "risk", <<>>, Unwrap(named[1].name)) >>

RECURSIVE WarnRisks(_)
WarnRisks(risks) ==
  IF risks = <<>> THEN <<>>
  ELSE (IF IsSome(Head(risks).name) /\ ~IsCriticalName(Unwrap(Head(risks).name))
        THEN << Reason("WARN", "risk", <<>>, Unwrap(Head(risks).name)) >>
        ELSE <<>>)
       \o WarnRisks(Tail(risks))

WarnFreshWallets(d) ==
  IF IsSome(d.fresh_wallet_count) /\ Unwrap(d.fresh_wallet_count) < 100
  THEN << Reason("WARN", "fresh_wallet_count < 100", <<Unwrap(d.fresh_wallet_count)>>, <<>>) >>
  ELSE <<>>

WarnBundlerCount(d) ==
  IF IsSome(d.bundler_count) /\ Unwrap(d.bundler_count) < 100
  THEN << Reason("WARN", "bundler_count < 100", <<Unwrap(d.bundler_count)>>, <<>>) >>
  ELSE <<>>

\* the reasons pushed by the warning block; warn_count is their number
WarnReasons(d) ==
  WarnScore(d) \o WarnLpProviders(d) \o WarnRisks(d.risks)
  \o WarnFreshWallets(d) \o WarnBundlerCount(d)

\* a plausible slip: the threshold compared with > instead of >=
WarnVerdictStrict(warns) ==
  LET warn_count == Len(warns)
  IN  IF warn_count > WARNING_THRESHOLD
      THEN [result |-> "Fail",
            reasons |-> << Reason("FAIL", "warnings (threshold)",
                                  <<warn_count, WARNING_THRESHOLD>>, <<>>) >> \o warns]
      ELSE [result |-> "Pass", reasons |-> warns]

WarnVerdict(warns) ==
  LET warn_count == Len(warns)
  IN  IF warn_count >= WARNING_THRESHOLD
      THEN [result |-> "Fail",
            reasons |-> << Reason("FAIL", "warnings (threshold)",
                                  <<warn_count, WARNING_THRESHOLD>>, <<>>) >> \o warns]
      ELSE [result |-> "Pass", reasons |-> warns]

evaluate(d) ==
  LET hard == HardReasons(d)
  IN  IF hard # <<>>
      THEN [result |-> "Fail", reasons |-> hard]
      ELSE WarnVerdict(WarnReasons(d))

(***************************************************************************)
(* serde_json::Value                                                       *)
(***************************************************************************)
JNull == [t |-> "null", v |-> 0]

JInt(n) == [t |-> "int", v |-> n]

JFloat(r) == [t |-> "float", v |-> r]

JStr(s) == [t |-> "str", v |-> s]

JBool(b) == [t |-> "bool", v |-> b]

JArr(a) == [t |-> "arr", v |-> a]

\* fields: a function from the keys present to their values
JObj(fields) == [t |-> "obj", v |-> fields]

\* Value::get(key): None unless the value is an object that has the key
Get(j, key) ==
  IF j.t = "obj" /\ key \in DOMAIN j.v THEN Some(j.v[key]) ELSE None

\* Option::and_then(|v| v.get(key))
GetIn(o, key) == IF IsSome(o) THEN Get(Unwrap(o), key) ELSE None

as_u64(o) ==
  IF IsSome(o) /\ Unwrap(o).t = "int" /\ Unwrap(o).v >= 0 THEN Some(Unwrap(o).v) ELSE None

as_i64(o) ==
  IF IsSome(o) /\ Unwrap(o).t = "int" THEN Some(Unwrap(o).v) ELSE None

as_f64(o) ==
  IF IsSome(o) /\ Unwrap(o).t = "float" THEN Some(Unwrap(o).v)
  ELSE IF IsSome(o) /\ Unwrap(o).t = "int" THEN Some(FromInt(Unwrap(o).v))
  ELSE None

as_str(o) ==
  IF IsSome(o) /\ Unwrap(o).t = "str" THEN Some(Unwrap(o).v) ELSE None

as_bool(o) ==
  IF IsSome(o) /\ Unwrap(o).t = "bool" THEN Some(Unwrap(o).v) ELSE None

as_array(o) ==
  IF IsSome(o) /\ Unwrap(o).t = "arr" THEN Some(Unwrap(o).v) ELSE None

\* a.first()
First(o) == IF IsSome(o) /\ Unwrap(o) # <<>> THEN Some(Unwrap(o)[1]) ELSE None

\* |a| a.iter().filter_map(|v| v.as_str()).map(String::from).collect(), or default
StrList(o) ==
  IF IsSome(as_array(o))
  THEN LET strs == SelectSeq(Unwrap(as_array(o)), LAMBDA v : v.t = "str")
       IN  [i \in DOMAIN strs |-> strs[i].v]
  ELSE <<>>

(***************************************************************************)
(* gmgn_ok                                                                 *)
(***************************************************************************)
\* a plausible slip: either half of the gate is enough
gmgn_ok_either(response) ==
  LET code == UnwrapOr(as_i64(Get(response, "code")), -1)
      message == UnwrapOr(as_str(Get(response, "message")), <<>>)
  IN  code = 0 \/ message = <<"s","u","c","c","e","s","s">>

gmgn_ok(response) ==
  LET code == UnwrapOr(as_i64(Get(response, "code")), -1)
      message == UnwrapOr(as_str(Get(response, "message")), <<>>)
  IN  code = 0 /\ message = <<"s","u","c","c","e","s","s">>

(***************************************************************************)
(* parse_rugcheck                                                          *)
(***************************************************************************)
parse_risk(v) == MkRisk(as_str(Get(v, "name")))

parse_rugcheck(json) ==
  LET total_holders == UnwrapOr(as_u64(Get(json, "totalHolders")), 0)
      top_holder_pct == as_f64(GetIn(First(as_array(Get(json, "topHolders"))), "pct"))
      risk_array == as_array(Get(json, "risks"))
      risks == IF IsSome(risk_array)
               THEN [i \in DOMAIN Unwrap(risk_array) |-> parse_risk(Unwrap(risk_array)[i])]
               ELSE <<>>
  IN  [DefaultData EXCEPT
         !.score_normalised   = as_i64(Get(json, "score_normalised")),
         !.top_holder_pct     = top_holder_pct,
         !.total_holders      = total_holders,
         !.risks              = risks,
         !.total_lp_providers = UnwrapOr(as_u64(Get(json, "totalLPProviders")), 0),
         !.rugged             = as_bool(Get(json, "rugged"))]

(***************************************************************************)
(* merge_gmgn_holder_stat                                                  *)
(***************************************************************************)
\* Option::map(|c| (c as f64 / total) * 100.0)
PctOf(count, total) ==
  IF IsSome(count)
  THEN Some(RMul(RDiv(FromInt(Unwrap(count)), FromInt(total)), FromInt(100)))
  ELSE None

\* Option::map(|c| c as f64 / total)
RatioOf(count, total) ==
  IF IsSome(count) THEN Some(RDiv(FromInt(Unwrap(count)), FromInt(total))) ELSE None

\* if x > cap { cap } else { x }
CapAt(o, cap) ==
  IF IsSome(o) /\ RGt(Unwrap(o), cap) THEN Some(cap) ELSE o

\* a plausible slip: the counts stored into a record rebuilt from the primary
\* report, which drops what the top-holders merge stored
StatCountsRebuilt(dt, d) ==
  [dt EXCEPT
     !.fresh_wallet_count   = as_u64(Get(d, "fresh_wallet_count")),
     !.insider_count        = as_u64(Get(d, "insider_count")),
     !.bluechip_owner_count = as_u64(Get(d, "bluechip_owner_count")),
     !.bundler_count        = as_u64(Get(d, "bundler_count")),
     !.dex_bot_count        = as_u64(Get(d, "dex_bot_count")),
     !.sniper_count         = as_u64(Get(d, "sniper_count")),
     !.dev_count            = as_u64(Get(d, "dev_count")),
     !.bundler_supply_pct   = None,
     !.bundler_holder_ratio = None,
     !.top_holders          = <<>>]

\* the seven assignments from d
StatCounts(dt, d) ==
  [dt EXCEPT
     !.fresh_wallet_count   = as_u64(Get(d, "fresh_wallet_count")),
     !.insider_count        = as_u64(Get(d, "insider_count")),
     !.bluechip_owner_count = as_u64(Get(d, "bluechip_owner_count")),
     !.bundler_count        = as_u64(Get(d, "bundler_count")),
     !.dex_bot_count        = as_u64(Get(d, "dex_bot_count")),
     !.sniper_count         = as_u64(Get(d, "sniper_count")),
     !.dev_count            = as_u64(Get(d, "dev_count"))]

\* the derived block: dt's ratios from counts, when total > 0
StatDerived(dt, counts) ==
  LET total == dt.total_holders
  IN  IF total > 0
      THEN [dt EXCEPT
              !.insiders_pct  = PctOf(counts.insider_count, total),
              !.bluechip_pct  = PctOf(counts.bluechip_owner_count, total),
              !.bundler_pct   = CapAt(PctOf(counts.bundler_count, total), FromInt(100)),
              !.fresh_ratio   = RatioOf(counts.fresh_wallet_count, total),
              !.bundled_ratio = CapAt(RatioOf(counts.bundler_count, total), FromInt(1))]
      ELSE dt

\* a plausible slip: the ratios computed before the counts are stored
merge_gmgn_holder_stat_stale(dt, json) ==
  IF IsSome(Get(json, "data"))
  THEN StatCounts(StatDerived(dt, dt), Unwrap(Get(json, "data")))
  ELSE dt

merge_gmgn_holder_stat(dt, json) ==
  IF IsSome(Get(json, "data"))
  THEN LET stored == StatCounts(dt, Unwrap(Get(json, "data")))
       IN  StatDerived(stored, stored)
  ELSE dt

(***************************************************************************)
(* merge_gmgn_token_holders                                                *)
(***************************************************************************)
\* the closure mapped over data.list; address and insider are stored and never read
parse_holder(h) ==
  MkHolder(RMul(UnwrapOr(as_f64(Get(h, "amount_percentage")), FromInt(0)), FromInt(100)),
           StrList(Get(h, "maker_token_tags")),
           StrList(Get(h, "tags")))

\* a plausible slip: the tag compared without lowering its case
has_bundler_cased(h) ==
  LET chained == h.maker_token_tags \o h.tags
  IN  \E i \in DOMAIN chained : contains(chained[i], <<"b","u","n","d","l","e","r">>)

has_bundler(h) ==
  LET chained == h.maker_token_tags \o h.tags
  IN  \E i \in DOMAIN chained :
        contains(to_lowercase(chained[i]), <<"b","u","n","d","l","e","r">>)

\* Iterator::sum of f64, from 0.0
RECURSIVE SumPct(_)
SumPct(hs) == IF hs = <<>> THEN FromInt(0) ELSE RAdd(Head(hs).pct, SumPct(Tail(hs)))

\* the two metrics computed from dt.top_holders
BundlerMetrics(dt) ==
  LET bundlers == SelectSeq(dt.top_holders, has_bundler)
      bundler_supply_pct == SumPct(bundlers)
      bundler_count_in_list == Len(bundlers)
      n == Len(dt.top_holders)
  IN  [dt EXCEPT
         !.bundler_supply_pct   = IF n > 0 THEN Some(bundler_supply_pct) ELSE None,
         !.bundler_holder_ratio =
            IF n > 0 THEN Some(RDiv(FromInt(bundler_count_in_list), FromInt(n)))
            ELSE None]

\* json.get("data").and_then(|d| d.get("list")).and_then(|l| l.as_array())
HolderList(json) == as_array(GetIn(Get(json, "data"), "list"))

merge_gmgn_token_holders(dt, json) ==
  IF IsSome(HolderList(json))
  THEN LET list == Unwrap(HolderList(json))
       IN  BundlerMetrics([dt EXCEPT !.top_holders = [i \in DOMAIN list |-> parse_holder(list[i])]])
  ELSE dt

(***************************************************************************)
(* The documents the fetch layer may hand over                             *)
(***************************************************************************)
\* an object with the keys whose value is present
MkObj(keys, val) ==
  JObj([k \in {k2 \in keys : IsSome(val[k2])} |-> Unwrap(val[k])])

S_success == <<"s","u","c","c","e","s","s">>

S_top_holder == <<"t","o","p","_","h","o","l","d","e","r">>

S_Mutable == <<"M","u","t","a","b","l","e">>

\* primary reports: the holder total inside or above the target range or
\* missing, and the rest of the report missing, present, or present with every
\* value of another JSON type than the parser asks for
RugDocs ==
  { MkObj({"totalHolders", "score_normalised", "risks", "rugged",
           "totalLPProviders", "topHolders"},
          [totalHolders     |-> th,
           score_normalised |-> rest.score,
           risks            |-> rest.risks,
           rugged           |-> rest.rugged,
           totalLPProviders |-> rest.lp,
           topHolders       |-> rest.top]) :
      th \in {None, Some(JInt(1000)), Some(JInt(4000))},
      rest \in { [score |-> None, risks |-> None, rugged |-> None, lp |-> None, top |-> None],
                 [score  |-> Some(JInt(15)),
                  risks  |-> Some(JArr(<< JObj([name |-> JStr(S_Mutable)]),
                                          JObj([level |-> JStr(<<"w","a","r","n">>)]) >>)),
                  rugged |-> Some(JBool(FALSE)),
                  lp     |-> Some(JInt(10)),
                  top    |-> Some(JArr(<< JObj([pct |-> JFloat(Rat(3, 1))]) >>))],
                 [score  |-> Some(JStr(<<"1","5">>)),
                  risks  |-> Some(JObj([name |-> JStr(S_Mutable)])),
                  rugged |-> Some(JInt(1)),
                  lp     |-> Some(JInt(-1)),
                  top    |-> Some(JArr(<< JObj([pct |-> JStr(<<"3">>)]) >>))] } }

\* the status code and message of a GMGN response
GateCodes == {None, Some(JInt(0)), Some(JInt(1)), Some(JStr(<<"0">>))}

GateMessages == {None, Some(JStr(S_success)), Some(JStr(<<"S","u","c","c","e","s","s">>))}

StatData(fresh, insider, bluechip, bundler, other) ==
  MkObj({"fresh_wallet_count", "insider_count", "bluechip_owner_count", "bundler_count",
         "dex_bot_count", "sniper_count", "dev_count"},
        [fresh_wallet_count   |-> fresh,
         insider_count        |-> insider,
         bluechip_owner_count |-> bluechip,
         bundler_count        |-> bundler,
         dex_bot_count        |-> other,
         sniper_count         |-> other,
         dev_count            |-> other])

\* the data member of a holder-statistics response: missing, null, or counts
\* that are missing, below the holder total, or above it
StatDatas ==
  {None, Some(JNull)} \cup
  { Some(StatData(fresh, insider, rest.bluechip, bundler, rest.other)) :
      fresh   \in {None, Some(JInt(50))},
      insider \in {None, Some(JInt(3)), Some(JInt(1500))},
      bundler \in {None, Some(JInt(50)), Some(JInt(1500))},
      rest    \in { [bluechip |-> None, other |-> None],
                    [bluechip |-> Some(JInt(20)), other |-> Some(JInt(7))] } }

Response(code, message, dat) ==
  MkObj({"code", "message", "data"}, [code |-> code, message |-> message, data |-> dat])

\* every data member under the code and message the gate accepts, and every
\* code and message over a data member with all the counts
StatDocs ==
  { Response(Some(JInt(0)), Some(JStr(S_success)), d) : d \in StatDatas } \cup
  { Response(c, m, Some(StatData(Some(JInt(50)), Some(JInt(3)), Some(JInt(20)),
                                 Some(JInt(50)), Some(JInt(7))))) :
      c \in GateCodes, m \in GateMessages }

\* entries of data.list: untagged beyond "top_holder" (with a non-string tag the
\* reader drops), a bundler by maker tag, a bundler by a capitalised tag with
\* neither maker tags nor a percentage
DocHolderKinds ==
  { JObj([address           |-> JStr(<<"a">>),
          amount_percentage |-> JFloat(Rat(5, 100)),
          insider           |-> JBool(FALSE),
          maker_token_tags  |-> JArr(<<>>),
          tags              |-> JArr(<<JStr(S_top_holder), JInt(7)>>)]),
    JObj([address           |-> JStr(<<"b">>),
          amount_percentage |-> JFloat(Rat(20, 100)),
          maker_token_tags  |-> JArr(<<JStr(<<"b","u","n","d","l","e","r">>)>>),
          tags              |-> JArr(<<JStr(S_top_holder)>>)]),
    JObj([address           |-> JStr(<<"c">>),
          tags              |-> JArr(<<JStr(<<"B","u","n","d","l","e","r">>)>>)]) }

\* the sequences over S of length 0..n
RECURSIVE SeqsUpTo(_, _)
SeqsUpTo(S, n) ==
  IF n = 0 THEN {<<>>}
  ELSE LET shorter == SeqsUpTo(S, n - 1)
       IN  shorter \cup {Append(s, x) : s \in shorter, x \in S}

\* the data member of a top-holders response: missing, without a list, or a list
HolderDatas ==
  {None, Some(JObj([total |-> JInt(0)]))} \cup
  { Some(JObj([list |-> JArr(l)])) : l \in SeqsUpTo(DocHolderKinds, MaxDocHolders) }

\* every data member under the code and message the gate accepts, and every
\* code and message over a list of one entry of each kind
HolderDocs ==
  { Response(Some(JInt(0)), Some(JStr(S_success)), d) : d \in HolderDatas } \cup
  { Response(c, m, Some(JObj([list |-> JArr(<<h>>)]))) :
      c \in GateCodes, m \in GateMessages, h \in DocHolderKinds }

(***************************************************************************)
(* main: fetch, parse, merge, merge, evaluate                              *)
(***************************************************************************)
Pending == [status |-> "pending", code |-> None, message |-> None]

NoMerge == [op |-> "none", doc |-> JNull]

Init ==
  /\ pc = "rugcheck"
  /\ data = DefaultData
  /\ result = "none"
  /\ reasons = <<>>
  /\ edits = 0
  /\ stat = Pending
  /\ holders = Pending
  /\ last = NoMerge

\* get_rugcheck_report returned Err: main prints and returns
RugcheckErr ==
  /\ pc = "rugcheck"
  /\ pc' = "aborted"
  /\ UNCHANGED <<data, result, reasons, edits, stat, holders, last>>

\* get_rugcheck_report returned Ok(json)
RugcheckOk(json) ==
  /\ pc = "rugcheck"
  /\ data' = parse_rugcheck(json)
  /\ pc' = "holder_stat"
  /\ UNCHANGED <<result, reasons, edits, stat, holders, last>>

\* get_gmgn_holder_stat returned Err
HolderStatErr ==
  /\ pc = "holder_stat"
  /\ stat' = [status |-> "err", code |-> None, message |-> None]
  /\ pc' = "token_holders"
  /\ UNCHANGED <<data, result, reasons, edits, holders, last>>

\* get_gmgn_holder_stat returned Ok(json): merged if gmgn_ok, dropped if not
HolderStatOk(json) ==
  /\ pc = "holder_stat"
  /\ IF gmgn_ok(json)
     THEN /\ data' = merge_gmgn_holder_stat(data, json)
          /\ stat' = [status |-> "merged", code |-> Get(json, "code"),
                      message |-> Get(json, "message")]
     ELSE /\ data' = data
          /\ stat' = [status |-> "rejected", code |-> None, message |-> None]
  /\ pc' = "token_holders"
  /\ UNCHANGED <<result, reasons, edits, holders, last>>

\* get_gmgn_token_holders returned Err
TokenHoldersErr ==
  /\ pc = "token_holders"
  /\ holders' = [status |-> "err", code |-> None, message |-> None]
  /\ pc' = "evaluate"
  /\ UNCHANGED <<data, result, reasons, edits, stat, last>>

\* get_gmgn_token_holders returned Ok(json): merged if gmgn_ok, dropped if not
TokenHoldersOk(json) ==
  /\ pc = "token_holders"
  /\ IF gmgn_ok(json)
     THEN /\ data' = merge_gmgn_token_holders(data, json)
          /\ holders' = [status |-> "merged", code |-> Get(json, "code"),
                         message |-> Get(json, "message")]
     ELSE /\ data' = data
          /\ holders' = [status |-> "rejected", code |-> None, message |-> None]
  /\ pc' = "evaluate"
  /\ UNCHANGED <<result, reasons, edits, stat, last>>

\* let (result, reasons) = evaluate(&data)
Evaluate ==
  /\ pc = "evaluate"
  /\ result' = evaluate(data).result
  /\ reasons' = evaluate(data).reasons
  /\ pc' = "done"
  /\ UNCHANGED <<data, edits, stat, holders, last>>

Next ==
  \/ RugcheckErr
  \/ \E json \in RugDocs : RugcheckOk(json)
  \/ HolderStatErr
  \/ \E json \in StatDocs : HolderStatOk(json)
  \/ TokenHoldersErr
  \/ \E json \in HolderDocs : TokenHoldersOk(json)
  \/ Evaluate

Spec == Init /\ [][Next]_vars

\* main awaits each fetch and runs the next step as soon as it returns, Ok or
\* Err: a step that is enabled is taken
FairSpec == Spec /\ WF_vars(Next)

(***************************************************************************)
(* SpecEval: evaluate applied to records around three base records         *)
(***************************************************************************)
S_Honeypot == <<"H","o","n","e","y","p","o","t">>

CleanHolder == MkHolder(Rat(5, 1), <<>>, <<S_top_holder>>)

BluechipHolder == MkHolder(Rat(10, 1), <<>>, <<<<"b","l","u","e","c","h","i","p">>>>)

\* a desirable tag in the maker list, inside a longer tag
AxiomHolder == MkHolder(Rat(2, 1), <<<<"a","x","i","o","m","_","b","o","t">>>>, <<S_top_holder>>)

\* desirable only if case were ignored
CapsWhaleHolder == MkHolder(Rat(7, 1), <<>>, <<<<"W","h","a","l","e">>>>)

\* the passing example: every check inside its threshold, nothing to warn about
GoodRecord ==
  [DefaultData EXCEPT
     !.score_normalised     = Some(5),
     !.top_holder_pct       = Some(Rat(3, 1)),
     !.total_holders        = 1000,
     !.total_lp_providers   = 10,
     !.rugged               = Some(FALSE),
     !.insiders_pct         = Some(Rat(1, 1)),
     !.bluechip_pct         = Some(Rat(2, 1)),
     !.fresh_ratio          = Some(Rat(1, 10)),
     !.bundler_supply_pct   = Some(Rat(10, 1)),
     !.bundler_holder_ratio = Some(Rat(1, 10)),
     !.top_holders          = <<BluechipHolder>>]

\* every hard-fail condition at once
BadRecord ==
  [DefaultData EXCEPT
     !.score_normalised     = Some(25),
     !.top_holder_pct       = Some(Rat(11, 1)),
     !.total_holders        = 200,
     !.total_lp_providers   = 10,
     !.risks                = <<MkRisk(Some(S_Honeypot))>>,
     !.rugged               = Some(TRUE),
     !.insiders_pct         = Some(Rat(6, 1)),
     !.bluechip_pct         = Some(Rat(1, 4)),
     !.fresh_ratio          = Some(Rat(1, 2)),
     !.bundler_supply_pct   = Some(Rat(40, 1)),
     !.bundler_holder_ratio = Some(Rat(1, 2)),
     !.top_holders          = <<CleanHolder>>]

\* no hard-fail condition, every warning rule at once
WarnRecord ==
  [DefaultData EXCEPT
     !.score_normalised   = Some(15),
     !.total_holders      = 1000,
     !.total_lp_providers = 4,
     !.risks              = <<MkRisk(Some(S_Mutable))>>,
     !.fresh_wallet_count = Some(50),
     !.bundler_count      = Some(50)]

BaseRecords == {GoodRecord, BadRecord, WarnRecord}

\* the values an edit may give a field: absent, and both sides of each threshold
EditValues ==
  [ score_normalised     |-> {None, Some(5), Some(9), Some(10), Some(20), Some(21)},
    top_holder_pct       |-> {None, Some(Rat(10, 1)), Some(Rat(21, 2))},
    total_holders        |-> {0, 499, 500, 3000, 3001},
    total_lp_providers   |-> {4, 5},
    rugged               |-> {None, Some(TRUE), Some(FALSE)},
    risks                |-> {<<>>},
    fresh_wallet_count   |-> {None, Some(99), Some(100)},
    bundler_count        |-> {None, Some(99), Some(100)},
    insiders_pct         |-> {None, Some(Rat(5, 1)), Some(Rat(150, 1))},
    bluechip_pct         |-> {None, Some(Rat(1, 2)), Some(Rat(49, 100))},
    bundler_pct          |-> {None, Some(Rat(30, 1)), Some(Rat(100, 1))},
    fresh_ratio          |-> {None, Some(Rat(2, 5)), Some(Rat(3, 2))},
    bundled_ratio        |-> {None, Some(Rat(2, 5)), Some(Rat(1, 1))},
    bundler_supply_pct   |-> {None, Some(Rat(30, 1)), Some(Rat(61, 2))},
    bundler_holder_ratio |-> {None, Some(Rat(2, 5)), Some(Rat(41, 100))},
    top_holders          |-> {<<>>} ]

\* the risks an edit may append: unnamed, not critical, critical by a substring,
\* and a critical name in the wrong case
RiskKinds ==
  { MkRisk(None),
    MkRisk(Some(S_Mutable)),
    MkRisk(Some(<<"C","r","e","a","t","o","r"," ","s","o","l","d"," ","o","u","t">>)),
    MkRisk(Some(<<"h","o","n","e","y","p","o","t">>)) }

HolderKinds == {CleanHolder, BluechipHolder, AxiomHolder, CapsWhaleHolder}

InitEval ==
  /\ pc = "evaluate"
  /\ data \in BaseRecords
  /\ result = "none"
  /\ reasons = <<>>
  /\ edits = 0
  /\ stat = Pending
  /\ holders = Pending
  /\ last = NoMerge

EditField(f, v) ==
  /\ pc = "evaluate"
  /\ edits < MaxEdits
  /\ data[f] # v
  /\ data' = [data EXCEPT ![f] = v]
  /\ edits' = edits + 1
  /\ UNCHANGED <<pc, result, reasons, stat, holders, last>>

AppendRisk(r) ==
  /\ pc = "evaluate"
  /\ edits < MaxEdits
  /\ data' = [data EXCEPT !.risks = Append(@, r)]
  /\ edits' = edits + 1
  /\ UNCHANGED <<pc, result, reasons, stat, holders, last>>

AppendHolder(h) ==
  /\ pc = "evaluate"
  /\ edits < MaxEdits
  /\ data' = [data EXCEPT !.top_holders = Append(@, h)]
  /\ edits' = edits + 1
  /\ UNCHANGED <<pc, result, reasons, stat, holders, last>>

NextEval ==
  \/ \E f \in DOMAIN EditValues : \E v \in EditValues[f] : EditField(f, v)
  \/ \E r \in RiskKinds : AppendRisk(r)
  \/ \E h \in HolderKinds : AppendHolder(h)
  \/ Evaluate

SpecEval == InitEval /\ [][NextEval]_vars

(***************************************************************************)
(* SpecTooClean: evaluate applied to top-holder lists longer than 10       *)
(***************************************************************************)
IsTagged(h) == h # CleanHolder

InitTooClean ==
  /\ pc = "evaluate"
  /\ data \in {[GoodRecord EXCEPT !.top_holders = <<>>], WarnRecord}
  /\ result = "none"
  /\ reasons = <<>>
  /\ edits = 0
  /\ stat = Pending
  /\ holders = Pending
  /\ last = NoMerge

PushHolder(h) ==
  /\ pc = "evaluate"
  /\ Len(data.top_holders) < MaxHolders
  /\ IsTagged(h) => Len(SelectSeq(data.top_holders, IsTagged)) < MaxTagged
  /\ data' = [data EXCEPT !.top_holders = Append(@, h)]
  /\ UNCHANGED <<pc, result, reasons, edits, stat, holders, last>>

NextTooClean ==
  \/ \E h \in HolderKinds : PushHolder(h)
  \/ Evaluate

SpecTooClean == InitTooClean /\ [][NextTooClean]_vars

(***************************************************************************)
(* SpecMerge: the two merges applied in any order, any number of times     *)
(***************************************************************************)
\* accepted holder-statistics documents: no data, null data, and counts present
\* or omitted one by one
MergeStatDocs ==
  { Response(Some(JInt(0)), Some(JStr(S_success)), d) :
      d \in {None, Some(JNull)} \cup
            { Some(StatData(fresh, insider, None, bundler, None)) :
                fresh   \in {None, Some(JInt(50))},
                insider \in {None, Some(JInt(1500))},
                bundler \in {None, Some(JInt(50))} } }

\* accepted top-holders documents: no data, no list, and lists of at most one entry
MergeHolderDocs ==
  { Response(Some(JInt(0)), Some(JStr(S_success)), d) :
      d \in {None, Some(JObj([total |-> JInt(0)]))} \cup
            { Some(JObj([list |-> JArr(l)])) : l \in SeqsUpTo(DocHolderKinds, 1) } }

InitMerge ==
  /\ pc = "merge"
  /\ data \in {parse_rugcheck(json) : json \in {j \in RugDocs : DOMAIN j.v \subseteq {"totalHolders"}}}
  /\ result = "none"
  /\ reasons = <<>>
  /\ edits = 0
  /\ stat = Pending
  /\ holders = Pending
  /\ last = NoMerge

\* the status of a merge after one more application
Applied(status) == IF status = "pending" THEN "merged" ELSE "merged_again"

ApplyHolderStat(json) ==
  /\ pc = "merge"
  /\ data' = merge_gmgn_holder_stat(data, json)
  /\ stat' = [status |-> Applied(stat.status), code |-> Get(json, "code"),
               message |-> Get(json, "message")]
  /\ last' = [op |-> "holder_stat", doc |-> json]
  /\ UNCHANGED <<pc, result, reasons, edits, holders>>

ApplyTokenHolders(json) ==
  /\ pc = "merge"
  /\ data' = merge_gmgn_token_holders(data, json)
  /\ holders' = [status |-> Applied(holders.status), code |-> Get(json, "code"),
                  message |-> Get(json, "message")]
  /\ last' = [op |-> "token_holders", doc |-> json]
  /\ UNCHANGED <<pc, result, reasons, edits, stat>>

NextMerge ==
  \/ \E json \in MergeStatDocs : ApplyHolderStat(json)
  \/ \E json \in MergeHolderDocs : ApplyTokenHolders(json)

SpecMerge == InitMerge /\ [][NextMerge]_vars

(***************************************************************************)
(* Vocabulary of the properties                                            *)
(***************************************************************************)
\* p occurs in s at some position
HasSubstring(s, p) ==
  \E i \in 1..(Len(s) - Len(p) + 1) : SubSeq(s, i, i + Len(p) - 1) = p

CriticalNames == {CRITICAL_RISK_NAMES[i] : i \in DOMAIN CRITICAL_RISK_NAMES}

DesirableTags == {DESIRABLE_HOLDER_TAGS[i] : i \in DOMAIN DESIRABLE_HOLDER_TAGS}

\* the risk matches the critical-name list
MatchesCritical(r) ==
  IsSome(r.name) /\ \E c \in CriticalNames : HasSubstring(Unwrap(r.name), c)

Present(o) == o # None

\* v is present and above the bound
Above(o, bound) == Present(o) /\ RGt(o[1], bound)

\* the effective bundler percentage and bundled ratio
EffectiveBundlerPct(d) ==
  IF Present(d.bundler_supply_pct) THEN d.bundler_supply_pct ELSE d.bundler_pct

EffectiveBundledRatio(d) ==
  IF Present(d.bundler_holder_ratio) THEN d.bundler_holder_ratio ELSE d.bundled_ratio

\* the tags of a holder, from both lists
TagsOf(h) ==
  {h.maker_token_tags[i] : i \in DOMAIN h.maker_token_tags} \cup {h.tags[i] : i \in DOMAIN h.tags}

\* the "too clean" condition
TooCleanCondition(d) ==
  /\ d.top_holders # <<>>
  /\ \A i \in DOMAIN d.top_holders :
       i <= 10 => \A t \in TagsOf(d.top_holders[i]) :
                    \A w \in DesirableTags : ~HasSubstring(t, w)

\* [cond, rule] as the one-element or empty list of triggered rules
RuleIf(cond, rule) == IF cond THEN <<rule>> ELSE <<>>

\* the rules of the critical risks, one per matching risk, in list order
CriticalRiskRules(d) ==
  LET hits == SelectSeq(d.risks, MatchesCritical)
  IN  [i \in DOMAIN hits |-> "critical risk"]

\* the triggered hard-fail conditions, in the fixed check order
TriggeredHardRules(d) ==
  RuleIf(Present(d.score_normalised) /\ d.score_normalised[1] > 20, "score_normalised > 20")
  \o RuleIf(Above(d.top_holder_pct, FromInt(10)), "top_holder_pct > 10%")
  \o RuleIf(d.total_holders < 500 \/ d.total_holders > 3000,
            IF d.total_holders < 500 THEN "total_holders < 500" ELSE "total_holders > 3000")
  \o RuleIf(Above(d.insiders_pct, FromInt(5)), "insiders_pct > 5%")
  \o RuleIf(Above(EffectiveBundlerPct(d), FromInt(30)), "bundler_pct > 30%")
  \o RuleIf(Present(d.bluechip_pct) /\ RLt(d.bluechip_pct[1], Rat(1, 2)), "bluechip_pct < 0.5%")
  \o RuleIf(Above(d.fresh_ratio, Rat(2, 5)), "fresh_ratio > 0.4")
  \o RuleIf(Above(EffectiveBundledRatio(d), Rat(2, 5)), "bundled_ratio > 0.4")
  \o CriticalRiskRules(d)
  \o RuleIf(d.rugged = Some(TRUE), "token marked as rugged")
  \o RuleIf(TooCleanCondition(d), "top holders 'too clean'")

RulesOf(rs) == [i \in DOMAIN rs |-> rs[i].rule]

PrefixesOf(rs) == {rs[i].prefix : i \in DOMAIN rs}

OnlyHard(rs) == rs # <<>> /\ PrefixesOf(rs) = {"HARD"}

(***************************************************************************)
(* C1: evaluate returns Fail with a list of only HARD reasons exactly when *)
(* a hard-fail condition holds, and then the list has one HARD reason per  *)
(* triggered condition (one per matching critical risk), in the fixed      *)
(* check order, every triggered condition reported, and no WARN or FAIL    *)
(* reason.                                                                 *)
(***************************************************************************)
C1_HardFail ==
  pc = "done" =>
    LET triggered == TriggeredHardRules(data)
    IN  /\ (result = "Fail" /\ OnlyHard(reasons)) <=> (triggered # <<>>)
        /\ triggered # <<>> => RulesOf(reasons) = triggered

\* every hard condition of the bad record and a second critical risk, all reported
C1_Witness ==
  /\ pc = "done"
  /\ result = "Fail"
  /\ Len(reasons) = 12
  /\ OnlyHard(reasons)
  /\ Len(SelectSeq(data.risks, MatchesCritical)) = 2

(***************************************************************************)
(* The warning rules that apply, in check order                            *)
(***************************************************************************)
WarnRulesBefore(d) ==
  RuleIf(Present(d.score_normalised) /\ d.score_normalised[1] >= 10
           /\ d.score_normalised[1] <= 20, "score_normalised in 10-20")
  \o RuleIf(d.total_lp_providers < 5, "total_lp_providers < 5")

WarnRulesAfter(d) ==
  RuleIf(Present(d.fresh_wallet_count) /\ d.fresh_wallet_count[1] < 100, "fresh_wallet_count < 100")
  \o RuleIf(Present(d.bundler_count) /\ d.bundler_count[1] < 100, "bundler_count < 100")

\* a risk that does not match the critical-name list, named or not
NonCritical(r) == ~MatchesCritical(r)

\* a risk that has a name, and the name does not match the critical-name list
NamedNonCritical(r) == IsSome(r.name) /\ ~MatchesCritical(r)

\* one warning per risk that is not critical
WarnRulesEveryRisk(d) ==
  LET rs == SelectSeq(d.risks, NonCritical)
  IN  WarnRulesBefore(d) \o [i \in DOMAIN rs |-> "risk"] \o WarnRulesAfter(d)

\* one warning per named risk that is not critical
WarnRulesNamedRisk(d) ==
  LET rs == SelectSeq(d.risks, NamedNonCritical)
  IN  WarnRulesBefore(d) \o [i \in DOMAIN rs |-> "risk"] \o WarnRulesAfter(d)

FailLine(n) == Reason("FAIL", "warnings (threshold)", <<n, 2>>, <<>>)

\* the verdict and reasons that the warning rules w call for
WarnOutcome(w) ==
  IF Len(w) >= 2
  THEN /\ result = "Fail"
       /\ reasons # <<>>
       /\ reasons[1] = FailLine(Len(w))
       /\ RulesOf(Tail(reasons)) = w
       /\ PrefixesOf(Tail(reasons)) = {"WARN"}
  ELSE /\ result = "Pass"
       /\ Len(reasons) <= 1
       /\ RulesOf(reasons) = w
       /\ PrefixesOf(reasons) \subseteq {"WARN"}

(***************************************************************************)
(* C2, as stated: with no hard-fail condition, evaluate counts one warning *)
(* per applicable rule, every risk that does not match the critical-name   *)
(* list counting as one, returns Fail exactly when the count n is >= 2,    *)
(* with "FAIL: n warnings (threshold 2)" followed by the n WARN reasons in *)
(* check order, and otherwise Pass with 0 or 1 WARN reasons.               *)
(***************************************************************************)
C2_AsStated ==
  (pc = "done" /\ TriggeredHardRules(data) = <<>>) => WarnOutcome(WarnRulesEveryRisk(data))

(***************************************************************************)
(* C2, amended: the same, with one warning per risk that has a name not    *)
(* matching the critical-name list; a risk without a name counts nothing.  *)
(***************************************************************************)
C2_Warnings ==
  (pc = "done" /\ TriggeredHardRules(data) = <<>>) => WarnOutcome(WarnRulesNamedRisk(data))

\* Fail on warnings, beside a risk that has no name and is not counted
C2_Witness ==
  /\ pc = "done"
  /\ result = "Fail"
  /\ reasons[1] = FailLine(Len(reasons) - 1)
  /\ \E i \in DOMAIN data.risks : data.risks[i].name = None

(***************************************************************************)
(* C3: the "too clean" HARD reason is produced exactly when the top-holder *)
(* list is non-empty and none of its first 10 entries has a tag, in either *)
(* tag list, containing "bundler", "bluechip", "whale" or "axiom" in that  *)
(* very case; an empty list never triggers it and entries after the 10th   *)
(* never affect it.                                                        *)
(***************************************************************************)
TooCleanReported == \E i \in DOMAIN reasons : reasons[i].rule = "top holders 'too clean'"

C3_TooClean ==
  pc = "done" =>
    /\ TooCleanReported <=> TooCleanCondition(data)
    /\ data.top_holders = <<>> => ~TooCleanReported
    /\ TooCleanReported <=> TooCleanCondition([data EXCEPT !.top_holders = Take(@, 10)])

\* ten holders without a desirable tag, then an eleventh with one: still too clean
C3_Witness ==
  /\ pc = "done"
  /\ Len(data.top_holders) = 11
  /\ \E t \in TagsOf(data.top_holders[11]) : \E w \in DesirableTags : HasSubstring(t, w)
  /\ TooCleanReported

(***************************************************************************)
(* C5, as stated: when evaluate returns Pass with exactly one WARN reason, *)
(* appending one more risk that does not match the critical-name list      *)
(* (with or without a name) makes evaluate return Fail with 2 warnings.    *)
(***************************************************************************)
FailsWithTwo(d) ==
  /\ evaluate(d).result = "Fail"
  /\ evaluate(d).reasons[1] = FailLine(2)

PassWithOneWarning == pc = "done" /\ result = "Pass" /\ Len(reasons) = 1

C5_AsStated ==
  PassWithOneWarning =>
    \A r \in {k \in RiskKinds : NonCritical(k)} :
      FailsWithTwo([data EXCEPT !.risks = Append(@, r)])

(***************************************************************************)
(* C5, amended: when evaluate returns Pass with exactly one WARN reason,   *)
(* appending one more risk whose name is present and does not match the    *)
(* critical-name list makes evaluate return Fail with 2 warnings; a risk   *)
(* without a name adds no warning and leaves the verdict Pass.             *)
(***************************************************************************)
C5_Monotone ==
  PassWithOneWarning =>
    /\ \A r \in {k \in RiskKinds : NamedNonCritical(k)} :
         FailsWithTwo([data EXCEPT !.risks = Append(@, r)])
    /\ \A r \in {k \in RiskKinds : k.name = None} :
         evaluate([data EXCEPT !.risks = Append(@, r)]) = [result |-> "Pass", reasons |-> reasons]

\* Pass with one warning, and that warning is about a risk
C5_Witness ==
  /\ PassWithOneWarning
  /\ reasons[1].rule = "risk"

(***************************************************************************)
(* C6: when bundler_supply_pct is present the bundler hard-fail check is   *)
(* decided by it alone and bundler_pct changes neither verdict nor         *)
(* reasons; bundler_pct decides only when bundler_supply_pct is absent,    *)
(* and the check is skipped when both are absent.                          *)
(***************************************************************************)
BundlerReported == \E i \in DOMAIN reasons : reasons[i].rule = "bundler_pct > 30%"

C6_BundlerPrecedence ==
  pc = "done" =>
    /\ Present(data.bundler_supply_pct) =>
         /\ BundlerReported <=> RGt(data.bundler_supply_pct[1], FromInt(30))
         /\ \A v \in EditValues.bundler_pct :
              evaluate([data EXCEPT !.bundler_pct = v]) = [result |-> result, reasons |-> reasons]
    /\ (~Present(data.bundler_supply_pct) /\ Present(data.bundler_pct)) =>
         (BundlerReported <=> RGt(data.bundler_pct[1], FromInt(30)))
    /\ (~Present(data.bundler_supply_pct) /\ ~Present(data.bundler_pct)) => ~BundlerReported

\* both present and on opposite sides of 30: the supply percentage decides
C6_Witness ==
  /\ pc = "done"
  /\ Present(data.bundler_supply_pct) /\ Present(data.bundler_pct)
  /\ RGt(data.bundler_pct[1], FromInt(30))
  /\ ~RGt(data.bundler_supply_pct[1], FromInt(30))
  /\ ~BundlerReported
  /\ result = "Pass"

(***************************************************************************)
(* C4: after any run of the pipeline, counts above the holder total        *)
(* included, every percentage field is absent or within 0..100 and every   *)
(* ratio field is absent or within 0..1.                                   *)
(***************************************************************************)
Within(o, lo, hi) == Present(o) => (RLe(FromInt(lo), o[1]) /\ RLe(o[1], FromInt(hi)))

C4_WithinBounds ==
  pc = "done" =>
    /\ Within(data.insiders_pct, 0, 100)
    /\ Within(data.bluechip_pct, 0, 100)
    /\ Within(data.bundler_pct, 0, 100)
    /\ Within(data.bundler_supply_pct, 0, 100)
    /\ Within(data.fresh_ratio, 0, 1)
    /\ Within(data.bundled_ratio, 0, 1)
    /\ Within(data.bundler_holder_ratio, 0, 1)

(***************************************************************************)
(* C7: applying merge_gmgn_holder_stat a second time with the same         *)
(* document leaves the record as the first application left it, field by   *)
(* field.                                                                  *)
(***************************************************************************)
C7_Idempotent ==
  last.op = "holder_stat" => merge_gmgn_holder_stat(data, last.doc) = data

\* a document with counts has been merged into a record with holders, over an
\* earlier merge, and the ratios are there
C7_Witness ==
  /\ last.op = "holder_stat"
  /\ stat.status = "merged_again"
  /\ Present(data.insider_count)
  /\ Present(data.insiders_pct)
  /\ ~Present(data.fresh_wallet_count)

(***************************************************************************)
(* C8: a holder-statistics or top-holders document is merged only when its *)
(* status code is the integer 0 and its message is exactly "success"; for  *)
(* each of the two documents that is unavailable or fails the gate, the    *)
(* fields it feeds are absent or empty in the record that is evaluated;    *)
(* and once the primary report is parsed the pipeline reaches evaluation   *)
(* and yields Pass or Fail.                                                *)
(***************************************************************************)
GatePassed(step) ==
  step.code = Some(JInt(0)) /\ step.message = Some(JStr(<<"s","u","c","c","e","s","s">>))

StatFields ==
  {"fresh_wallet_count", "insider_count", "bluechip_owner_count", "bundler_count",
   "dex_bot_count", "sniper_count", "dev_count",
   "insiders_pct", "bluechip_pct", "bundler_pct", "fresh_ratio", "bundled_ratio"}

HolderFields == {"bundler_supply_pct", "bundler_holder_ratio"}

C8_GateState ==
  /\ stat.status = "merged" => GatePassed(stat)
  /\ holders.status = "merged" => GatePassed(holders)
  /\ pc \in {"evaluate", "done"} =>
       /\ stat.status # "merged" => \A f \in StatFields : data[f] = None
       /\ holders.status # "merged" =>
            (data.top_holders = <<>> /\ \A f \in HolderFields : data[f] = None)
  /\ pc = "done" => result \in {"Pass", "Fail"}

C8_Gate ==
  /\ []C8_GateState
  /\ (pc \in {"holder_stat", "token_holders", "evaluate"}) ~> (pc = "done")

\* one document was dropped at the gate, the other fetch failed, and the
\* verdict is there
C8_Witness ==
  /\ pc = "done"
  /\ stat.status = "rejected"
  /\ holders.status = "err"
  /\ result \in {"Pass", "Fail"}

(***************************************************************************)
(* C9: after merge_gmgn_token_holders, bundler_supply_pct and              *)
(* bundler_holder_ratio are both absent exactly when the extracted list is *)
(* empty; for a non-empty list both are present, the ratio is the number   *)
(* of holders with a tag containing "bundler" in any case, in either tag   *)
(* list, divided by the list size, the supply percentage is the sum of     *)
(* those holders' percentages, and both are a present zero when no holder  *)
(* is bundler-tagged.                                                      *)
(***************************************************************************)
BundlerTagged(h) ==
  \E t \in TagsOf(h) : HasSubstring(to_lowercase(t), <<"b","u","n","d","l","e","r">>)

BundlerIndices(hs) == {i \in DOMAIN hs : BundlerTagged(hs[i])}

RECURSIVE SumPctAt(_, _)
SumPctAt(hs, idx) ==
  IF idx = {} THEN FromInt(0)
  ELSE LET i == CHOOSE j \in idx : TRUE
       IN  RAdd(hs[i].pct, SumPctAt(hs, idx \ {i}))

C9_BundlerMetrics ==
  holders.status = "merged" =>
    LET hs == data.top_holders
        idx == BundlerIndices(hs)
    IN  /\ (data.bundler_supply_pct = None /\ data.bundler_holder_ratio = None) <=> (hs = <<>>)
        /\ hs # <<>> =>
             /\ data.bundler_holder_ratio = Some(Rat(Cardinality(idx), Len(hs)))
             /\ data.bundler_supply_pct = Some(SumPctAt(hs, idx))
             /\ idx = {} => /\ data.bundler_supply_pct = Some(FromInt(0))
                            /\ data.bundler_holder_ratio = Some(FromInt(0))

\* two holders, one a bundler only by a capitalised tag
C9_Witness ==
  /\ holders.status = "merged"
  /\ Len(data.top_holders) = 2
  /\ data.bundler_holder_ratio = Some(Rat(1, 2))
  /\ \E i \in DOMAIN data.top_holders :
       <<"B","u","n","d","l","e","r">> \in TagsOf(data.top_holders[i])

(***************************************************************************)
(* C10, as stated: in every sequence of applications of the two merges, no *)
(* field present before a merge step is absent after it, and a non-empty   *)
(* top-holder list never becomes empty.                                    *)
(***************************************************************************)
OptionalFields == StatFields \cup HolderFields \cup {"score_normalised", "top_holder_pct", "rugged"}

NothingRetracted ==
  /\ \A f \in OptionalFields : Present(data[f]) => Present(data'[f])
  /\ data.top_holders # <<>> => data'.top_holders # <<>>

C10_AsStated == [][NothingRetracted]_vars

(***************************************************************************)
(* C10, amended: the first application of each merge to a record built by  *)
(* parse_rugcheck, in either order, makes no present field absent and no   *)
(* non-empty top-holder list empty; a later application of the same merge  *)
(* replaces the fields it feeds by what its document carries.              *)
(***************************************************************************)
FirstApplication ==
  \/ stat.status = "pending" /\ stat'.status = "merged"
  \/ holders.status = "pending" /\ holders'.status = "merged"

C10_FirstMergeAdds == [][FirstApplication => NothingRetracted]_vars

\* each merge applied once, the statistics last, and both left their fields
C10_Witness ==
  /\ stat.status = "merged"
  /\ holders.status = "merged"
  /\ last.op = "holder_stat"
  /\ Present(data.fresh_wallet_count)
  /\ Present(data.fresh_ratio)
  /\ data.top_holders # <<>>
  /\ Present(data.bundler_supply_pct)

====
